---- MODULE Spec2Model ----
(***************************************************************************)
(* Trade ledger and position aggregation of position_mgmt.py.              *)
(*                                                                         *)
(* A TradeRepository owns two dictionaries: trades (trade_id -> Trade) and *)
(* positions (instrument -> TradePosition).  Its four methods are the      *)
(* actions of this module.  A Python call that raises keeps every          *)
(* assignment made before the raise; the exception is recorded in          *)
(* last.raised.                                                            *)
(*                                                                         *)
(* average_price is a Python float.  It is modelled as an exact fraction   *)
(* [n, d] in lowest terms with d > 0, and prices are whole numbers: the    *)
(* model follows the arithmetic of the expressions, not the rounding of    *)
(* IEEE doubles.  Whether a quantity is 0 is decided on Python's exact     *)
(* integers and is not affected by this choice.  trade_date is never read  *)
(* by any method and is left out of the Trade record.                      *)
(***************************************************************************)
EXTENDS Integers, FiniteSets, Sequences, TLC

VARIABLES
    trades,      \* TradeRepository.trades: trade_id -> Trade
    positions,   \* TradeRepository.positions: instrument -> TradePosition
    last,        \* the latest call: its arguments, what it raised and returned
    registered,  \* history: trade_id -> the quantity its latest add_trade gave
    pc,          \* the line of the example usage's next call, or "caller"
    nops         \* the number of calls the caller has made

vars == <<trades, positions, last, registered, pc, nops>>

--------------------------------------------------------------------------
(* Bounds of the model *)

\* the number of calls a caller makes on its repository
MaxOps == 3

\* the arguments callers draw from
TradeIds == {1, 2}
Instruments == {"AAPL", "MSFT"}
Sides == {"buy", "sell"}
Quantities == {1, 2}
Prices == {0, 1}

--------------------------------------------------------------------------
(* Exact fractions standing for Python floats *)

Abs(x) == IF x < 0 THEN -x ELSE x

RECURSIVE GCD(_, _)
GCD(a, b) == IF b = 0 THEN a ELSE GCD(b, a % b)

\* the fraction n/d (d # 0) in lowest terms with a positive denominator
Rat(n, d) ==
    LET g == GCD(Abs(n), Abs(d))
        s == IF d < 0 THEN -1 ELSE 1
    IN  [n |-> (s * n) \div g, d |-> (s * d) \div g]

RatOfInt(k) == [n |-> k, d |-> 1]

Zero == RatOfInt(0)

RatAdd(x, y) == Rat(x.n * y.d + y.n * x.d, x.d * y.d)

RatMulInt(x, k) == Rat(x.n * k, x.d)

\* x / k for k # 0
RatDivInt(x, k) == Rat(x.n, x.d * k)

RatLess(x, y) == x.n * y.d < y.n * x.d

--------------------------------------------------------------------------
(* Values *)

\* class Trade
Trade(trade_id, instrument, quantity, price, side) ==
    [trade_id |-> trade_id, instrument |-> instrument, quantity |-> quantity,
     price |-> price, side |-> side]

\* class TradePosition, as constructed
TradePosition(instrument) ==
    [instrument |-> instrument, quantity |-> 0, average_price |-> Zero]

\* an optional argument: absent (Python None) or a given value
None == [given |-> FALSE, v |-> 0]

Some(v) == [given |-> TRUE, v |-> v]

\* Truthy as the test "is not None": a given 0 counts as a value
Truthy_is_not_none(x) == x.given

\* Python truthiness of an optional numeric argument: None and 0 are falsy
Truthy(x) == x.given /\ x.v # 0

NoTrade == Trade(0, "", 0, 0, "")

\* what a caller reads of positions.get(instrument): None, or the two fields
NoPosition == [present |-> FALSE, quantity |-> 0, average_price |-> Zero]

View(ps, instrument) ==
    IF instrument \in DOMAIN ps
    THEN [present |-> TRUE, quantity |-> ps[instrument].quantity,
          average_price |-> ps[instrument].average_price]
    ELSE NoPosition

(* The record of a call.  trade is the Trade object the call worked on     *)
(* (the argument of add_trade, the local variable trade of amend_trade and *)
(* cancel_trade), found is the outcome of the test trade_id in self.trades,*)
(* before is what positions.get(instrument) held when the call began.      *)
NoCall ==
    [op |-> "none", trade |-> NoTrade, trade_id |-> 0, new_quantity |-> None,
     new_price |-> None, instrument |-> "", found |-> FALSE,
     before |-> NoPosition, raised |-> "none", ret |-> NoPosition]

\* dictionary assignment d[k] = v
Put(d, k, v) == [x \in DOMAIN d \cup {k} |-> IF x = k THEN v ELSE d[x]]

\* del d[k]
Del(d, k) == [x \in DOMAIN d \ {k} |-> d[x]]

--------------------------------------------------------------------------
(* TradePosition.update_position: the position after the call and the     *)
(* exception it raised.  On a buy the quantity is assigned before the      *)
(* division is evaluated, so a ZeroDivisionError leaves the new quantity   *)
(* and the old average_price.                                              *)

\* buy_branch with the old average weighted by the new quantity
buy_branch_weights_new_quantity(pos, trade) ==
    LET q == pos.quantity + trade.quantity
        num == RatAdd(RatMulInt(pos.average_price, q),
                      RatOfInt(trade.price * trade.quantity))
    IN  IF q = 0
        THEN [pos |-> [pos EXCEPT !.quantity = q],
              raised |-> "ZeroDivisionError"]
        ELSE [pos |-> [pos EXCEPT !.quantity = q,
                                  !.average_price = RatDivInt(num, q)],
              raised |-> "none"]

\* buy_branch that divides by the size of the new quantity
buy_branch_divides_by_size(pos, trade) ==
    LET q == pos.quantity + trade.quantity
        num == RatAdd(RatMulInt(pos.average_price, q - trade.quantity),
                      RatOfInt(trade.price * trade.quantity))
    IN  IF q = 0
        THEN [pos |-> [pos EXCEPT !.quantity = q],
              raised |-> "ZeroDivisionError"]
        ELSE [pos |-> [pos EXCEPT !.quantity = q,
                                  !.average_price = RatDivInt(num, Abs(q))],
              raised |-> "none"]

buy_branch(pos, trade) ==
    LET q == pos.quantity + trade.quantity
        num == RatAdd(RatMulInt(pos.average_price, q - trade.quantity),
                      RatOfInt(trade.price * trade.quantity))
    IN  IF q = 0
        THEN [pos |-> [pos EXCEPT !.quantity = q],
              raised |-> "ZeroDivisionError"]
        ELSE [pos |-> [pos EXCEPT !.quantity = q,
                                  !.average_price = RatDivInt(num, q)],
              raised |-> "none"]

\* sell_branch that takes the sold units out of the average by a division
sell_branch_reweights(pos, trade) ==
    LET q == pos.quantity - trade.quantity
        num == RatAdd(RatMulInt(pos.average_price, pos.quantity),
                      RatOfInt(-(trade.price * trade.quantity)))
    IN  IF q = 0
        THEN [pos |-> [pos EXCEPT !.quantity = q],
              raised |-> "ZeroDivisionError"]
        ELSE [pos |-> [pos EXCEPT !.quantity = q,
                                  !.average_price = RatDivInt(num, q)],
              raised |-> "none"]

\* sell_branch that resets the average price on every sell
sell_branch_resets(pos, trade) ==
    LET q == pos.quantity - trade.quantity
    IN  [pos |-> [pos EXCEPT !.quantity = q, !.average_price = Zero],
         raised |-> "none"]

\* sell_branch that refuses a sell of more than is held
sell_branch_rejects_short(pos, trade) ==
    LET q == pos.quantity - trade.quantity
    IN  IF q < 0
        THEN [pos |-> pos, raised |-> "ValueError"]
        ELSE [pos |-> [pos EXCEPT !.quantity = q,
                                  !.average_price =
                                      IF q = 0 THEN Zero ELSE pos.average_price],
              raised |-> "none"]

sell_branch(pos, trade) ==
    LET q == pos.quantity - trade.quantity
    IN  [pos |-> [pos EXCEPT !.quantity = q,
                             !.average_price =
                                 IF q = 0 THEN Zero ELSE pos.average_price],
         raised |-> "none"]

update_position(pos, trade) ==
    IF trade.side = "buy" THEN buy_branch(pos, trade)
    ELSE IF trade.side = "sell" THEN sell_branch(pos, trade)
    ELSE [pos |-> pos, raised |-> "none"]

--------------------------------------------------------------------------
(* TradeRepository *)

Init ==
    /\ trades = << >>
    /\ positions = << >>
    /\ last = NoCall
    /\ registered = << >>
    /\ pc \in {"l62", "caller"}
    /\ nops = 0

\* add_trade that ignores a trade whose trade_id is already stored
add_trade_rejects_duplicate(trade) ==
    LET positions1 ==
            IF trade.instrument \notin DOMAIN positions
            THEN Put(positions, trade.instrument, TradePosition(trade.instrument))
            ELSE positions
        r == update_position(positions1[trade.instrument], trade)
        call == [NoCall EXCEPT !.op = "add_trade", !.trade = trade,
                               !.trade_id = trade.trade_id,
                               !.instrument = trade.instrument,
                               !.found = trade.trade_id \in DOMAIN trades,
                               !.before = View(positions, trade.instrument)]
    IN  IF trade.trade_id \in DOMAIN trades
        THEN /\ UNCHANGED <<trades, positions, registered>>
             /\ last' = call
        ELSE /\ trades' = Put(trades, trade.trade_id, trade)
             /\ positions' = Put(positions1, trade.instrument, r.pos)
             /\ registered' = Put(registered, trade.trade_id, trade.quantity)
             /\ last' = [call EXCEPT !.raised = r.raised]

\* add_trade with the test "not in" inverted: a new position replaces a
\* stored one, and a missing one is looked up
add_trade_inverted_test(trade) ==
    LET call == [NoCall EXCEPT !.op = "add_trade", !.trade = trade,
                               !.trade_id = trade.trade_id,
                               !.instrument = trade.instrument,
                               !.found = trade.trade_id \in DOMAIN trades,
                               !.before = View(positions, trade.instrument)]
    IN  /\ trades' = Put(trades, trade.trade_id, trade)
        /\ registered' = Put(registered, trade.trade_id, trade.quantity)
        /\ IF trade.instrument \in DOMAIN positions THEN
               LET r == update_position(TradePosition(trade.instrument), trade)
               IN  /\ positions' = Put(positions, trade.instrument, r.pos)
                   /\ last' = [call EXCEPT !.raised = r.raised]
           ELSE /\ positions' = positions
                /\ last' = [call EXCEPT !.raised = "KeyError"]

add_trade(trade) ==
    LET positions1 ==
            IF trade.instrument \notin DOMAIN positions
            THEN Put(positions, trade.instrument, TradePosition(trade.instrument))
            ELSE positions
        r == update_position(positions1[trade.instrument], trade)
    IN  /\ trades' = Put(trades, trade.trade_id, trade)
        /\ positions' = Put(positions1, trade.instrument, r.pos)
        /\ registered' = Put(registered, trade.trade_id, trade.quantity)
        /\ last' = [NoCall EXCEPT !.op = "add_trade", !.trade = trade,
                                  !.trade_id = trade.trade_id,
                                  !.instrument = trade.instrument,
                                  !.found = trade.trade_id \in DOMAIN trades,
                                  !.before = View(positions, trade.instrument),
                                  !.raised = r.raised]

\* amend_found that first takes the trade's stored contribution back
amend_found_reversing(trade_id, new_quantity, new_price, call) ==
    LET t0 == trades[trade_id]
        t1 == IF Truthy(new_quantity)
              THEN [t0 EXCEPT !.quantity = new_quantity.v] ELSE t0
        trade == IF Truthy(new_price)
                 THEN [t1 EXCEPT !.price = new_price.v] ELSE t1
        c == [call EXCEPT !.trade = trade, !.instrument = trade.instrument,
                          !.found = TRUE,
                          !.before = View(positions, trade.instrument)]
    IN  /\ trades' = Put(trades, trade_id, trade)
        /\ IF trade.instrument \in DOMAIN positions THEN
               LET pos == positions[trade.instrument]
                   undone == [pos EXCEPT !.quantity =
                                 pos.quantity -
                                 (IF t0.side = "buy" THEN t0.quantity
                                                     ELSE -t0.quantity)]
                   r == update_position(undone, trade)
               IN  /\ positions' = Put(positions, trade.instrument, r.pos)
                   /\ last' = [c EXCEPT !.raised = r.raised]
           ELSE /\ positions' = positions
                /\ last' = [c EXCEPT !.raised = "KeyError"]

\* amend_found that applies the trade to every stored position
amend_found_updates_every_position(trade_id, new_quantity, new_price, call) ==
    LET t0 == trades[trade_id]
        t1 == IF Truthy(new_quantity)
              THEN [t0 EXCEPT !.quantity = new_quantity.v] ELSE t0
        trade == IF Truthy(new_price)
                 THEN [t1 EXCEPT !.price = new_price.v] ELSE t1
        c == [call EXCEPT !.trade = trade, !.instrument = trade.instrument,
                          !.found = TRUE,
                          !.before = View(positions, trade.instrument)]
    IN  /\ trades' = Put(trades, trade_id, trade)
        /\ IF trade.instrument \in DOMAIN positions THEN
               LET r == update_position(positions[trade.instrument], trade)
               IN  /\ positions' =
                         [x \in DOMAIN positions |->
                             update_position(positions[x], trade).pos]
                   /\ last' = [c EXCEPT !.raised = r.raised]
           ELSE /\ positions' = positions
                /\ last' = [c EXCEPT !.raised = "KeyError"]

\* lines 40-45: the body of amend_trade for a trade_id that is in trades
amend_found(trade_id, new_quantity, new_price, call) ==
    LET t0 == trades[trade_id]
        t1 == IF Truthy(new_quantity)
              THEN [t0 EXCEPT !.quantity = new_quantity.v] ELSE t0
        trade == IF Truthy(new_price)
                 THEN [t1 EXCEPT !.price = new_price.v] ELSE t1
        c == [call EXCEPT !.trade = trade, !.instrument = trade.instrument,
                          !.found = TRUE,
                          !.before = View(positions, trade.instrument)]
    IN  /\ trades' = Put(trades, trade_id, trade)
        /\ IF trade.instrument \in DOMAIN positions THEN
               LET r == update_position(positions[trade.instrument], trade)
               IN  /\ positions' = Put(positions, trade.instrument, r.pos)
                   /\ last' = [c EXCEPT !.raised = r.raised]
           ELSE /\ positions' = positions
                /\ last' = [c EXCEPT !.raised = "KeyError"]

\* amend_trade without the test trade_id in self.trades
amend_trade_unguarded(trade_id, new_quantity, new_price) ==
    LET call == [NoCall EXCEPT !.op = "amend_trade", !.trade_id = trade_id,
                               !.new_quantity = new_quantity,
                               !.new_price = new_price]
    IN  /\ UNCHANGED registered
        /\ IF trade_id \in DOMAIN trades
           THEN amend_found(trade_id, new_quantity, new_price, call)
           ELSE /\ UNCHANGED <<trades, positions>>
                /\ last' = [call EXCEPT !.raised = "KeyError"]

amend_trade(trade_id, new_quantity, new_price) ==
    LET call == [NoCall EXCEPT !.op = "amend_trade", !.trade_id = trade_id,
                               !.new_quantity = new_quantity,
                               !.new_price = new_price]
    IN  /\ UNCHANGED registered
        /\ IF trade_id \in DOMAIN trades
           THEN amend_found(trade_id, new_quantity, new_price, call)
           ELSE /\ UNCHANGED <<trades, positions>>
                /\ last' = call

\* cancel_trade that reverses the quantity the trade was registered with
cancel_trade_original_quantity(trade_id) ==
    LET call == [NoCall EXCEPT !.op = "cancel_trade", !.trade_id = trade_id]
    IN  /\ UNCHANGED registered
        /\ IF trade_id \in DOMAIN trades THEN
               LET trade == trades[trade_id]
                   c == [call EXCEPT !.trade = trade,
                                     !.instrument = trade.instrument,
                                     !.found = TRUE,
                                     !.before = View(positions, trade.instrument)]
               IN  /\ trades' = Del(trades, trade_id)
                   /\ IF trade.instrument \in DOMAIN positions THEN
                          LET pos == positions[trade.instrument]
                              q == pos.quantity -
                                   (IF trade.side = "buy"
                                    THEN registered[trade_id]
                                    ELSE -registered[trade_id])
                          IN  /\ positions' =
                                    Put(positions, trade.instrument,
                                        [pos EXCEPT !.quantity = q,
                                                    !.average_price =
                                                        IF q = 0 THEN Zero
                                                        ELSE pos.average_price])
                              /\ last' = c
                      ELSE /\ positions' = positions
                           /\ last' = [c EXCEPT !.raised = "KeyError"]
           ELSE /\ UNCHANGED <<trades, positions>>
                /\ last' = call

\* cancel_trade that deletes a position whose quantity has returned to 0
cancel_trade_drops_empty(trade_id) ==
    LET call == [NoCall EXCEPT !.op = "cancel_trade", !.trade_id = trade_id]
    IN  /\ UNCHANGED registered
        /\ IF trade_id \in DOMAIN trades THEN
               LET trade == trades[trade_id]
                   c == [call EXCEPT !.trade = trade,
                                     !.instrument = trade.instrument,
                                     !.found = TRUE,
                                     !.before = View(positions, trade.instrument)]
               IN  /\ trades' = Del(trades, trade_id)
                   /\ IF trade.instrument \in DOMAIN positions THEN
                          LET pos == positions[trade.instrument]
                              q == pos.quantity -
                                   (IF trade.side = "buy" THEN trade.quantity
                                                          ELSE -trade.quantity)
                          IN  /\ positions' =
                                    IF q = 0
                                    THEN Del(positions, trade.instrument)
                                    ELSE Put(positions, trade.instrument,
                                             [pos EXCEPT !.quantity = q])
                              /\ last' = c
                      ELSE /\ positions' = positions
                           /\ last' = [c EXCEPT !.raised = "KeyError"]
           ELSE /\ UNCHANGED <<trades, positions>>
                /\ last' = call

\* cancel_trade without del self.trades[trade_id]
cancel_trade_keeps_trade(trade_id) ==
    LET call == [NoCall EXCEPT !.op = "cancel_trade", !.trade_id = trade_id]
    IN  /\ UNCHANGED registered
        /\ IF trade_id \in DOMAIN trades THEN
               LET trade == trades[trade_id]
                   c == [call EXCEPT !.trade = trade,
                                     !.instrument = trade.instrument,
                                     !.found = TRUE,
                                     !.before = View(positions, trade.instrument)]
               IN  /\ trades' = trades
                   /\ IF trade.instrument \in DOMAIN positions THEN
                          LET pos == positions[trade.instrument]
                              q == pos.quantity -
                                   (IF trade.side = "buy" THEN trade.quantity
                                                          ELSE -trade.quantity)
                          IN  /\ positions' =
                                    Put(positions, trade.instrument,
                                        [pos EXCEPT !.quantity = q,
                                                    !.average_price =
                                                        IF q = 0 THEN Zero
                                                        ELSE pos.average_price])
                              /\ last' = c
                      ELSE /\ positions' = positions
                           /\ last' = [c EXCEPT !.raised = "KeyError"]
           ELSE /\ UNCHANGED <<trades, positions>>
                /\ last' = call

\* cancel_trade that subtracts the quantity whatever the side
cancel_trade_subtracts_always(trade_id) ==
    LET call == [NoCall EXCEPT !.op = "cancel_trade", !.trade_id = trade_id]
    IN  /\ UNCHANGED registered
        /\ IF trade_id \in DOMAIN trades THEN
               LET trade == trades[trade_id]
                   c == [call EXCEPT !.trade = trade,
                                     !.instrument = trade.instrument,
                                     !.found = TRUE,
                                     !.before = View(positions, trade.instrument)]
               IN  /\ trades' = Del(trades, trade_id)
                   /\ IF trade.instrument \in DOMAIN positions THEN
                          LET pos == positions[trade.instrument]
                              q == pos.quantity - trade.quantity
                          IN  /\ positions' =
                                    Put(positions, trade.instrument,
                                        [pos EXCEPT !.quantity = q,
                                                    !.average_price =
                                                        IF q = 0 THEN Zero
                                                        ELSE pos.average_price])
                              /\ last' = c
                      ELSE /\ positions' = positions
                           /\ last' = [c EXCEPT !.raised = "KeyError"]
           ELSE /\ UNCHANGED <<trades, positions>>
                /\ last' = call

cancel_trade(trade_id) ==
    LET call == [NoCall EXCEPT !.op = "cancel_trade", !.trade_id = trade_id]
    IN  /\ UNCHANGED registered
        /\ IF trade_id \in DOMAIN trades THEN
               LET trade == trades[trade_id]
                   c == [call EXCEPT !.trade = trade,
                                     !.instrument = trade.instrument,
                                     !.found = TRUE,
                                     !.before = View(positions, trade.instrument)]
               IN  /\ trades' = Del(trades, trade_id)
                   /\ IF trade.instrument \in DOMAIN positions THEN
                          LET pos == positions[trade.instrument]
                              q == pos.quantity -
                                   (IF trade.side = "buy" THEN trade.quantity
                                                          ELSE -trade.quantity)
                          IN  /\ positions' =
                                    Put(positions, trade.instrument,
                                        [pos EXCEPT !.quantity = q,
                                                    !.average_price =
                                                        IF q = 0 THEN Zero
                                                        ELSE pos.average_price])
                              /\ last' = c
                      ELSE /\ positions' = positions
                           /\ last' = [c EXCEPT !.raised = "KeyError"]
           ELSE /\ UNCHANGED <<trades, positions>>
                /\ last' = call

\* get_position through setdefault: a missing key gets a new zero position
get_position_setdefault(instrument) ==
    LET positions1 ==
            IF instrument \notin DOMAIN positions
            THEN Put(positions, instrument, TradePosition(instrument))
            ELSE positions
    IN  /\ UNCHANGED <<trades, registered>>
        /\ positions' = positions1
        /\ last' = [NoCall EXCEPT !.op = "get_position",
                                  !.instrument = instrument,
                                  !.before = View(positions, instrument),
                                  !.ret = View(positions1, instrument)]

\* dict.get: the stored position, or None for a missing key
get_position(instrument) ==
    /\ UNCHANGED <<trades, positions, registered>>
    /\ last' = [NoCall EXCEPT !.op = "get_position", !.instrument = instrument,
                              !.before = View(positions, instrument),
                              !.ret = View(positions, instrument)]

--------------------------------------------------------------------------
(* The example usage at module level (lines 59-82), run on a repository of *)
(* its own; pc is the line of its next call.                               *)

Example ==
    /\ UNCHANGED nops
    /\ \/ pc = "l62" /\ add_trade(Trade(1, "AAPL", 100, 100, "buy")) /\ pc' = "l63"
       \/ pc = "l63" /\ add_trade(Trade(2, "AAPL", 50, 110, "buy")) /\ pc' = "l64"
       \/ pc = "l64" /\ add_trade(Trade(3, "AAPL", 20, 120, "sell")) /\ pc' = "l67"
       \/ pc = "l67" /\ get_position("AAPL") /\ pc' = "l71"
       \/ pc = "l71" /\ amend_trade(2, Some(70), None) /\ pc' = "l74"
       \/ pc = "l74" /\ get_position("AAPL") /\ pc' = "l78"
       \/ pc = "l78" /\ cancel_trade(1) /\ pc' = "l81"
       \/ pc = "l81" /\ get_position("AAPL") /\ pc' = "done"

(* Calls of any other caller on a TradeRepository of its own (Init with    *)
(* pc = "caller"), as python_perftester.py constructs one.                 *)

Caller ==
    /\ pc = "caller"
    /\ nops < MaxOps
    /\ nops' = nops + 1
    /\ UNCHANGED pc

OptQuantities == {None, Some(0)} \cup {Some(q) : q \in Quantities}

OptPrices == {None} \cup {Some(p) : p \in Prices}

CallAdd ==
    /\ Caller
    /\ \E i \in TradeIds, s \in Instruments, q \in Quantities, p \in Prices,
          sd \in Sides : add_trade(Trade(i, s, q, p, sd))

CallAmend ==
    /\ Caller
    /\ \E i \in TradeIds, nq \in OptQuantities, np \in OptPrices :
          amend_trade(i, nq, np)

CallCancel ==
    /\ Caller
    /\ \E i \in TradeIds : cancel_trade(i)

CallGet ==
    /\ Caller
    /\ \E s \in Instruments : get_position(s)

Next ==
    \/ Example
    \/ CallAdd
    \/ CallAmend
    \/ CallCancel
    \/ CallGet

Spec == Init /\ [][Next]_vars

--------------------------------------------------------------------------
(* Claims *)

\* the position stored for an instrument, or the one add_trade would create
PositionOrNew(ps, instrument) ==
    IF instrument \in DOMAIN ps THEN ps[instrument] ELSE TradePosition(instrument)

\* (A*Q + p*q) / (Q + q), for Q + q # 0
WeightedAverage(A, Q, p, q) ==
    RatDivInt(RatAdd(RatMulInt(A, Q), RatOfInt(p * q)), Q + q)

(* C1.  Zero-quantity invariant: every stored position whose quantity is   *)
(* exactly 0 has average_price exactly 0.0, also after a call that ended   *)
(* in a ZeroDivisionError.                                                 *)
ZeroQuantityInvariant ==
    \A s \in DOMAIN positions :
        positions[s].quantity = 0 => positions[s].average_price = Zero

(* C2.  No-op on unknown id: amend_trade or cancel_trade with a trade_id   *)
(* that is not a key of trades leaves trades and positions unchanged and   *)
(* raises nothing.                                                         *)
NoOpOnUnknownId ==
    [][ (/\ last'.op \in {"amend_trade", "cancel_trade"}
         /\ last'.trade_id \notin DOMAIN trades)
        => (/\ trades' = trades
            /\ positions' = positions
            /\ last'.raised = "none") ]_vars

\* an amend_trade with an unknown id on a ledger that holds trades
UnknownIdOnLedger ==
    /\ last.op = "amend_trade"
    /\ ~last.found
    /\ last.trade_id \notin DOMAIN trades
    /\ DOMAIN trades # {}
    /\ \E s \in DOMAIN positions : positions[s].quantity # 0

(* C3.  The average_price of every stored position is non-negative in      *)
(* every reachable state.                                                  *)
AveragePriceNonNegative ==
    \A s \in DOMAIN positions : positions[s].average_price.n >= 0

(* C4 as claimed.  The only failure is a ZeroDivisionError, and only       *)
(* add_trade of a buy that brings the quantity to 0 produces it;           *)
(* amend_trade, cancel_trade and get_position never fail.                  *)
OnlyRegisterFails ==
    last.raised # "none" =>
        /\ last.op = "add_trade"
        /\ last.raised = "ZeroDivisionError"
        /\ last.trade.side = "buy"
        /\ positions[last.instrument].quantity = 0

(* C4 as amended.  The only failure is a ZeroDivisionError, and only       *)
(* add_trade, or amend_trade on a known id, applying a buy that brings the *)
(* position's quantity to exactly 0 produces it; cancel_trade,             *)
(* get_position and amend_trade on an unknown id never fail.               *)
OnlyBuyToZeroFails ==
    last.raised # "none" =>
        /\ last.raised = "ZeroDivisionError"
        /\ \/ last.op = "add_trade"
           \/ last.op = "amend_trade" /\ last.found
        /\ last.trade.side = "buy"
        /\ last.instrument \in DOMAIN positions
        /\ positions[last.instrument].quantity = 0
        /\ last.before.quantity + last.trade.quantity = 0

\* an amend_trade on a known id that ended in a ZeroDivisionError
AmendRaised ==
    /\ last.op = "amend_trade"
    /\ last.found
    /\ last.raised = "ZeroDivisionError"

(* C5.  Sell preserves average price: add_trade of a sell on a position of *)
(* quantity old_qty sets the quantity to old_qty - trade.quantity; if that *)
(* is not 0 the average_price is the one before the sell, and if it is 0   *)
(* the average_price is 0.0.                                               *)
SellPreservesAveragePrice ==
    [][ (last'.op = "add_trade" /\ last'.trade.side = "sell")
        => LET s == last'.instrument
               old == PositionOrNew(positions, s)
           IN  /\ s \in DOMAIN positions'
               /\ positions'[s].quantity = old.quantity - last'.trade.quantity
               /\ positions'[s].average_price =
                      IF positions'[s].quantity = 0 THEN Zero
                      ELSE old.average_price
               /\ last'.raised = "none" ]_vars

\* a sell was registered on a position that keeps a non-zero average price
SellKeptAverage ==
    /\ last.op = "add_trade"
    /\ last.trade.side = "sell"
    /\ last.before.present
    /\ last.before.average_price # Zero
    /\ positions[last.instrument].quantity # 0
    /\ positions[last.instrument].average_price # Zero

(* C6.  cancel_trade of a known id removes that trade from trades and      *)
(* changes the instrument's quantity by the trade's currently stored       *)
(* quantity (minus for a buy, plus for a sell); the average_price is kept  *)
(* unless the resulting quantity is 0, then it is 0.0.  No other trade and *)
(* no other position changes.                                              *)
CancelReversesStoredQuantity ==
    [][ (last'.op = "cancel_trade" /\ last'.trade_id \in DOMAIN trades)
        => LET id == last'.trade_id
               t == trades[id]
               s == t.instrument
               signed == IF t.side = "buy" THEN t.quantity ELSE -t.quantity
           IN  /\ DOMAIN trades' = DOMAIN trades \ {id}
               /\ \A k \in DOMAIN trades' : trades'[k] = trades[k]
               /\ s \in DOMAIN positions
               /\ DOMAIN positions' = DOMAIN positions
               /\ \A x \in DOMAIN positions \ {s} : positions'[x] = positions[x]
               /\ positions'[s].instrument = positions[s].instrument
               /\ positions'[s].quantity = positions[s].quantity - signed
               /\ positions'[s].average_price =
                      IF positions'[s].quantity = 0 THEN Zero
                      ELSE positions[s].average_price
               /\ last'.raised = "none" ]_vars

\* a trade was cancelled whose quantity an amendment had changed, while
\* another trade and a non-zero position remain
CancelledAfterAmendment ==
    /\ last.op = "cancel_trade"
    /\ last.found
    /\ last.trade.quantity # registered[last.trade_id]
    /\ positions[last.instrument].quantity # 0
    /\ positions[last.instrument].average_price # Zero

\* what add_trade makes of the position (Q, A) for a trade that does not
\* raise: the quantity and the average price
AsRegistered(pos, trade) ==
    IF trade.side = "buy"
    THEN [quantity |-> pos.quantity + trade.quantity,
          average_price |->
              IF pos.quantity + trade.quantity = 0 THEN pos.average_price
              ELSE WeightedAverage(pos.average_price, pos.quantity,
                                   trade.price, trade.quantity)]
    ELSE [quantity |-> pos.quantity - trade.quantity,
          average_price |->
              IF pos.quantity - trade.quantity = 0 THEN Zero
              ELSE pos.average_price]

(* C7.  Amendment is non-reversing: amend_trade on a known id stores the   *)
(* new quantity and price in the trade and then applies the trade to the   *)
(* current position (Q, A) as add_trade applies a new trade, the earlier   *)
(* contribution staying in: a buy gives Q + q' and                          *)
(* (A*Q + p'*q') / (Q + q').  In the example usage the amendment of trade 2 *)
(* to quantity 70 gives quantity 200.                                      *)
AmendmentStep ==
    (last'.op = "amend_trade" /\ last'.trade_id \in DOMAIN trades)
    => LET id == last'.trade_id
           old == trades[id]
           nq == last'.new_quantity
           np == last'.new_price
           t == trades'[id]
           s == old.instrument
       IN  /\ DOMAIN trades' = DOMAIN trades
           /\ t = [old EXCEPT
                      !.quantity = IF nq.given /\ nq.v # 0 THEN nq.v ELSE @,
                      !.price = IF np.given /\ np.v # 0 THEN np.v ELSE @]
           /\ s \in DOMAIN positions
           /\ positions'[s].quantity = AsRegistered(positions[s], t).quantity
           /\ positions'[s].average_price =
                  AsRegistered(positions[s], t).average_price
           /\ (t.side = "buy" /\ positions[s].quantity + t.quantity # 0) =>
                  /\ positions'[s].quantity = positions[s].quantity + t.quantity
                  /\ positions'[s].average_price =
                         WeightedAverage(positions[s].average_price,
                                         positions[s].quantity,
                                         t.price, t.quantity)

AmendmentNonReversing ==
    /\ [][AmendmentStep]_vars
    /\ [](pc = "l74" => positions["AAPL"].quantity = 200)

\* the example usage has amended trade 2, a buy, to quantity 70
ExampleAmended ==
    /\ pc = "l74"
    /\ last.op = "amend_trade"
    /\ last.found
    /\ last.trade.side = "buy"
    /\ last.trade.quantity = 70
    /\ last.before.quantity = 130

(* C8.  Overwrite semantics: add_trade of a buy whose trade_id already     *)
(* holds a buy of the same instrument is not rejected; trades keeps one    *)
(* entry for the id, the later trade, and the position takes the later buy *)
(* on top of the earlier one.  After two such calls in a row the quantity  *)
(* has grown by the sum of both quantities and the average_price is the    *)
(* buy recurrence applied twice.                                           *)
OverwriteStep ==
    (/\ last'.op = "add_trade"
     /\ last'.trade.side = "buy"
     /\ last'.trade_id \in DOMAIN trades
     /\ trades[last'.trade_id].side = "buy"
     /\ trades[last'.trade_id].instrument = last'.instrument)
    => LET id == last'.trade_id
           t1 == trades[id]
           t2 == last'.trade
           s == t2.instrument
       IN  /\ DOMAIN trades' = DOMAIN trades
           /\ trades'[id] = t2
           /\ \A k \in DOMAIN trades \ {id} : trades'[k] = trades[k]
           /\ positions'[s].quantity = positions[s].quantity + t2.quantity
           /\ (last.op = "add_trade" /\ last.trade = t1) =>
                  LET Q0 == last.before.quantity
                      A0 == last.before.average_price
                      Q1 == Q0 + t1.quantity
                  IN  /\ positions'[s].quantity
                             = Q0 + (t1.quantity + t2.quantity)
                      /\ (Q1 # 0 /\ Q1 + t2.quantity # 0) =>
                             positions'[s].average_price =
                                 WeightedAverage(
                                     WeightedAverage(A0, Q0, t1.price, t1.quantity),
                                     Q1, t2.price, t2.quantity)

OverwriteSemantics == [][OverwriteStep]_vars

\* two buys with the same id and different prices were registered in a row
\* on a position that was held before
RegisteredTwice ==
    /\ last.op = "add_trade"
    /\ last.found
    /\ last.raised = "none"
    /\ last.trade.side = "buy"
    /\ last.trade.price = 1
    /\ last.before.present
    /\ last.before.average_price = Zero
    /\ last.before.quantity = 2
    /\ positions[last.instrument].quantity = 2 + last.trade.quantity
    /\ DOMAIN trades = {last.trade_id}
    /\ nops = 2

(* C9 as claimed.  After the example usage's three add_trade calls the     *)
(* AAPL position has quantity 130 and average_price 103.846153...          *)
(* (about 103.85, taken here as anything from 103.84 to 103.85).           *)
ScenarioAsClaimed ==
    pc = "l67" =>
        /\ positions["AAPL"].quantity = 130
        /\ ~RatLess(positions["AAPL"].average_price, Rat(10384, 100))
        /\ ~RatLess(Rat(10385, 100), positions["AAPL"].average_price)

(* C9 as amended.  After the example usage's three add_trade calls the     *)
(* AAPL position has quantity 130 and average_price                        *)
(* (100*100 + 50*110)/150 = 103.333...                                     *)
ScenarioAfterThreeTrades ==
    pc = "l67" =>
        /\ positions["AAPL"].quantity = 130
        /\ positions["AAPL"].average_price = Rat(100 * 100 + 50 * 110, 150)

\* the example usage has registered its three trades
ExampleRegistered ==
    /\ pc = "l67"
    /\ DOMAIN trades = {1, 2, 3}
    /\ last.op = "add_trade"
    /\ last.trade.side = "sell"
    /\ last.trade.quantity = 20

(* C10.  get_position is a pure read: it changes neither trades nor        *)
(* positions; for an instrument without a position it returns None and     *)
(* creates no entry, for one with a position it returns its quantity and   *)
(* average_price; two calls in a row for one instrument return the same.   *)
GetPositionIsPureRead ==
    [][ last'.op = "get_position"
        => LET s == last'.instrument
           IN  /\ trades' = trades
               /\ positions' = positions
               /\ last'.raised = "none"
               /\ s \notin DOMAIN positions =>
                      /\ ~last'.ret.present
                      /\ s \notin DOMAIN positions'
               /\ s \in DOMAIN positions =>
                      /\ last'.ret.present
                      /\ last'.ret.quantity = positions[s].quantity
                      /\ last'.ret.average_price = positions[s].average_price
               /\ (last.op = "get_position" /\ last.instrument = s) =>
                      last'.ret = last.ret ]_vars

\* get_position returned None for an instrument while another is held
ReadOfMissingInstrument ==
    /\ last.op = "get_position"
    /\ ~last.ret.present
    /\ last.instrument \notin DOMAIN positions
    /\ DOMAIN positions # {}
    /\ DOMAIN trades # {}

(* C11.  Buy recurrence: add_trade of a buy of quantity q at price p on a  *)
(* position (old_qty, avg) with old_qty + q # 0 gives quantity old_qty + q *)
(* and average_price (avg*old_qty + p*q) / (old_qty + q), for negative     *)
(* old_qty as well; the example usage's two buys 100 at 100.0 and 50 at    *)
(* 110.0 give (100*100 + 50*110) / 150.                                    *)
BuyStep ==
    (last'.op = "add_trade" /\ last'.trade.side = "buy")
    => LET s == last'.instrument
           old == PositionOrNew(positions, s)
           q == last'.trade.quantity
           p == last'.trade.price
       IN  old.quantity + q # 0 =>
               /\ s \in DOMAIN positions'
               /\ positions'[s].quantity = old.quantity + q
               /\ positions'[s].average_price =
                      Rat(old.average_price.n * old.quantity
                          + p * q * old.average_price.d,
                          old.average_price.d * (old.quantity + q))
               /\ last'.raised = "none"

BuyRecurrence ==
    /\ [][BuyStep]_vars
    /\ [](pc = "l64" =>
             /\ positions["AAPL"].quantity = 150
             /\ positions["AAPL"].average_price.n * 150
                    = (100 * 100 + 50 * 110) * positions["AAPL"].average_price.d)

\* a buy at a non-zero price was registered on a short position and left
\* it short
BuyOnShortPosition ==
    /\ last.op = "add_trade"
    /\ last.trade.side = "buy"
    /\ last.trade.price # 0
    /\ last.raised = "none"
    /\ last.before.quantity < 0
    /\ positions[last.instrument].quantity < 0
    /\ positions[last.instrument].average_price # Zero

(* C12.  Falsy amendment guard: amend_trade on a known id with             *)
(* new_quantity 0 or omitted keeps the stored quantity, and with new_price *)
(* 0 or omitted keeps the stored price; the trade is applied to the        *)
(* instrument's position all the same, so the position changes even when   *)
(* no field of the trade changed.                                          *)
FalsyAmendmentGuard ==
    [][ (last'.op = "amend_trade" /\ last'.trade_id \in DOMAIN trades)
        => LET id == last'.trade_id
               nq == last'.new_quantity
               np == last'.new_price
               s == trades[id].instrument
               signed == IF trades'[id].side = "buy" THEN trades'[id].quantity
                                                     ELSE -trades'[id].quantity
           IN  /\ (~nq.given \/ nq.v = 0) =>
                      trades'[id].quantity = trades[id].quantity
               /\ (~np.given \/ np.v = 0) =>
                      trades'[id].price = trades[id].price
               /\ ((~nq.given \/ nq.v = 0) \/ (~np.given \/ np.v = 0)) =>
                      /\ positions'[s].quantity = positions[s].quantity + signed
                      /\ positions'[s] # positions[s]
               /\ trades' = trades => positions' # positions ]_vars

\* amend_trade with new_quantity 0 and no new_price left the trade as it was
\* and moved the position
AmendedWithZero ==
    /\ last.op = "amend_trade"
    /\ last.found
    /\ last.new_quantity = Some(0)
    /\ last.new_price = None
    /\ last.trade = trades[last.trade_id]
    /\ last.trade.quantity = registered[last.trade_id]
    /\ positions[last.instrument].quantity # last.before.quantity

(* C13.  Position lifecycle: a position for an instrument exists if and    *)
(* only if add_trade has been called for it.  No position exists at the    *)
(* start; every add_trade leaves one for its instrument; a position        *)
(* appears only in an add_trade for that instrument, made from quantity 0  *)
(* and average_price 0.0 with the trade applied; and no add_trade,         *)
(* amend_trade or cancel_trade removes a position, whatever its quantity.  *)
LifecycleStep ==
    /\ DOMAIN positions \subseteq DOMAIN positions'
    /\ last'.op = "add_trade" => last'.instrument \in DOMAIN positions'
    /\ \A x \in DOMAIN positions' \ DOMAIN positions :
           /\ last'.op = "add_trade"
           /\ last'.instrument = x
           /\ positions'[x].instrument = x
           /\ positions'[x].quantity =
                  IF last'.trade.side = "buy" THEN 0 + last'.trade.quantity
                                              ELSE 0 - last'.trade.quantity
           /\ positions'[x].average_price =
                  IF last'.trade.side = "buy" THEN RatOfInt(last'.trade.price)
                                              ELSE Zero

PositionLifecycle ==
    /\ DOMAIN positions = {}
    /\ [][LifecycleStep]_vars

\* the last trade of an instrument was cancelled and its position stays,
\* at quantity 0
PositionOutlivesTrades ==
    /\ last.op = "cancel_trade"
    /\ last.found
    /\ last.instrument \in DOMAIN positions
    /\ positions[last.instrument].quantity = 0
    /\ \A k \in DOMAIN trades : trades[k].instrument # last.instrument

(* C14.  Short positions are accepted: add_trade of a sell and             *)
(* cancel_trade of a buy are not rejected when they take the quantity      *)
(* below zero, and the negative quantity is stored as it is; a sell of q   *)
(* on a new instrument gives quantity -q with average_price 0.0.           *)
ShortStep ==
    /\ (last'.op = "add_trade" /\ last'.trade.side = "sell") =>
           LET s == last'.instrument
               old == PositionOrNew(positions, s)
           IN  /\ last'.raised = "none"
               /\ last'.trade_id \in DOMAIN trades'
               /\ trades'[last'.trade_id] = last'.trade
               /\ positions'[s].quantity = old.quantity - last'.trade.quantity
               /\ s \notin DOMAIN positions =>
                      /\ positions'[s].quantity = -last'.trade.quantity
                      /\ positions'[s].quantity < 0
                      /\ positions'[s].average_price = Zero
    /\ (/\ last'.op = "cancel_trade"
        /\ last'.trade_id \in DOMAIN trades
        /\ trades[last'.trade_id].side = "buy") =>
           LET t == trades[last'.trade_id]
           IN  /\ last'.raised = "none"
               /\ last'.trade_id \notin DOMAIN trades'
               /\ positions'[t.instrument].quantity
                      = positions[t.instrument].quantity - t.quantity

ShortPositionsAccepted == [][ShortStep]_vars

\* a sell took a held position below zero and the negative quantity is stored
SoldShort ==
    /\ last.op = "add_trade"
    /\ last.trade.side = "sell"
    /\ last.raised = "none"
    /\ last.before.present
    /\ last.before.quantity > 0
    /\ positions[last.instrument].quantity < 0
    /\ positions[last.instrument].quantity
           = last.before.quantity - last.trade.quantity

(* C15.  Cancelled is terminal: cancel_trade of a known id takes the id    *)
(* out of trades, only an add_trade of that id brings it back, and while   *)
(* a registered id is out of trades every cancel_trade or amend_trade of   *)
(* it leaves trades and positions unchanged; so a trade's quantity is      *)
(* reversed at most once per registration.                                 *)
TerminalStep ==
    /\ (last'.op = "cancel_trade" /\ last'.trade_id \in DOMAIN trades) =>
           last'.trade_id \notin DOMAIN trades'
    /\ \A k \in DOMAIN trades' \ DOMAIN trades :
           last'.op = "add_trade" /\ last'.trade_id = k
    /\ (/\ last'.op \in {"cancel_trade", "amend_trade"}
        /\ last'.trade_id \in DOMAIN registered
        /\ last'.trade_id \notin DOMAIN trades) =>
           /\ trades' = trades
           /\ positions' = positions
           /\ last'.raised = "none"

CancelledIsTerminal == [][TerminalStep]_vars

\* a trade that was registered and cancelled was cancelled once more, and
\* its position is where the first cancel_trade left it
CancelledAgain ==
    /\ last.op = "cancel_trade"
    /\ ~last.found
    /\ last.raised = "none"
    /\ last.trade_id \in DOMAIN registered
    /\ last.trade_id \notin DOMAIN trades
    /\ nops = 3
    /\ DOMAIN trades = {}
    /\ \E s \in DOMAIN positions : positions[s].quantity = 0

\* the sum, over the trades of ts with an id in ids and instrument s, of
\* +quantity for a buy and -quantity for a sell
RECURSIVE SignedSum(_, _, _)
SignedSum(ts, ids, s) ==
    IF ids = {} THEN 0
    ELSE LET k == CHOOSE x \in ids : TRUE
             own == IF ts[k].instrument # s THEN 0
                    ELSE IF ts[k].side = "buy" THEN ts[k].quantity
                    ELSE -ts[k].quantity
         IN  own + SignedSum(ts, ids \ {k}, s)

\* every position's quantity is the signed sum of the stored trades of its
\* instrument
Conserved(ts, ps) ==
    \A s \in DOMAIN ps : ps[s].quantity = SignedSum(ts, DOMAIN ts, s)

(* C16.  Quantity conservation: under add_trade with ids never registered  *)
(* before and cancel_trade alone, every position's quantity is the sum over *)
(* the stored trades of its instrument of +quantity for a buy and          *)
(* -quantity for a sell (0 once all of them are cancelled).  It holds of   *)
(* the new repository, each such call keeps it, and it holds in the        *)
(* example usage until the amendment.                                      *)
ConservationStep ==
    (/\ Conserved(trades, positions)
     /\ \/ last'.op = "add_trade" /\ last'.trade_id \notin DOMAIN registered
        \/ last'.op = "cancel_trade")
    => Conserved(trades', positions')

QuantityConservation ==
    /\ Conserved(trades, positions)
    /\ [][ConservationStep]_vars
    /\ [](pc \in {"l63", "l64", "l67", "l71"} => Conserved(trades, positions))

\* two trades with distinct ids were registered and one of them cancelled:
\* the position is what the other trade makes it
OneOfTwoCancelled ==
    /\ nops = 3
    /\ last.op = "cancel_trade"
    /\ last.found
    /\ DOMAIN registered = {1, 2}
    /\ Cardinality(DOMAIN trades) = 1
    /\ \A k \in DOMAIN trades : trades[k].instrument = last.instrument
    /\ positions[last.instrument].quantity # 0
    /\ Conserved(trades, positions)

(* C17.  Referential invariant: in every reachable state, also after an    *)
(* add_trade that raised, the instrument of every stored trade is a key of *)
(* positions and every position is stored under its own instrument; so     *)
(* amend_trade and cancel_trade on a known id find the position they       *)
(* update (no KeyError).                                                   *)
ReferentialInvariant ==
    /\ \A k \in DOMAIN trades : trades[k].instrument \in DOMAIN positions
    /\ \A s \in DOMAIN positions : positions[s].instrument = s
    /\ last.raised # "KeyError"
    /\ (last.op \in {"amend_trade", "cancel_trade"} /\ last.found) =>
           /\ last.before.present
           /\ last.instrument \in DOMAIN positions

\* an add_trade raised ZeroDivisionError: its trade is stored and the
\* position of its instrument is there
RegisterRaised ==
    /\ last.op = "add_trade"
    /\ last.raised = "ZeroDivisionError"
    /\ last.trade_id \in DOMAIN trades
    /\ trades[last.trade_id] = last.trade
    /\ last.instrument \in DOMAIN positions
    /\ positions[last.instrument].quantity = 0

(* C18.  Instrument isolation: add_trade, amend_trade and cancel_trade of  *)
(* a trade on instrument X leave the position of every other instrument as *)
(* it was, quantity and average_price, and leave every entry of trades     *)
(* other than the addressed id as it was.                                  *)
InstrumentIsolation ==
    [][ last'.op \in {"add_trade", "amend_trade", "cancel_trade"}
        => /\ \A s \in DOMAIN positions \ {last'.instrument} :
                  /\ s \in DOMAIN positions'
                  /\ positions'[s].quantity = positions[s].quantity
                  /\ positions'[s].average_price = positions[s].average_price
                  /\ positions'[s] = positions[s]
           /\ DOMAIN positions' \subseteq DOMAIN positions \cup {last'.instrument}
           /\ \A k \in DOMAIN trades \ {last'.trade_id} :
                  /\ k \in DOMAIN trades'
                  /\ trades'[k] = trades[k]
           /\ DOMAIN trades' \subseteq DOMAIN trades \cup {last'.trade_id} ]_vars

\* a trade of one instrument was amended while another instrument has a
\* trade and a non-zero position
AmendedBesideOtherInstrument ==
    /\ last.op = "amend_trade"
    /\ last.found
    /\ positions[last.instrument].quantity # last.before.quantity
    /\ \E s \in DOMAIN positions \ {last.instrument} :
           /\ positions[s].quantity # 0
           /\ \E k \in DOMAIN trades \ {last.trade_id} : trades[k].instrument = s

====
